---- MODULE Spec2Model ----
(***************************************************************************)
(* Contract Review Skill: the command-line pipeline of cli.py and          *)
(* src/analyze.py (template loader, knowledge assembler, remote call,      *)
(* response parser, report writer) and the external knowledge connector    *)
(* of src/knowledge/external.                                              *)
(*                                                                         *)
(* Text is modelled as a sequence of lexemes (a Python str is a TLA+       *)
(* sequence of strings); a Python dict is a function with a string domain, *)
(* so that `"k" in d` is `"k" \in DOMAIN d`.                               *)
(***************************************************************************)
EXTENDS Integers, Sequences, FiniteSets, TLC

VARIABLES
    pc,                   \* position of the running command / function
    cmd,                  \* the CLI command (or library function) under way
    jurisdiction,         \* --jurisdiction, "auto" when not given
    contract_type,        \* --contract-type
    fs_knowledge,         \* JURISDICTIONS_DIR: (jurisdiction, type) -> file
    jurisdiction_context, \* value returned by build_jurisdiction_context
    raised,               \* exception raised by the function under way, or "none"
    response_text,        \* response.content[0].text of the remote model
    n_parts,              \* number of pieces the model has generated so far
    result,               \* dict returned by the library function under way
    api_key_set,          \* ANTHROPIC_API_KEY is set in the environment
    format,               \* --format
    output,               \* --output was given
    docx_available,       \* DOCX_AVAILABLE: python-docx could be imported
    template,             \* prompts/risk_analysis.md as load_prompt found it
    patterns_file,        \* knowledge/risk_patterns.json as load_risk_patterns found it
    pdf,                  \* the PDF argument(s) as click and encode_pdf found them
    full_prompt,          \* the prompt text sent with the PDF
    api_calls,            \* number of client.messages.create calls made
    failed_at,            \* the stage that raised, or "none"
    exit_code,            \* exit status of the process, -1 while it runs
    console,              \* kinds of message printed so far
    out_file,             \* what the command wrote to its output file
    env_openlaws_key,     \* OPENLAWS_API_KEY is set in the environment
    conn_api_key,         \* OpenLawsConnector.api_key is set
    http_requests,        \* number of HTTP requests the connector has sent
    http_outcome          \* what the service did with the last request

ctxVars == <<jurisdiction, contract_type, fs_knowledge, jurisdiction_context>>
parseVars == <<response_text, n_parts, result>>
optVars == <<api_key_set, format, output, docx_available>>
envVars == <<template, patterns_file, pdf>>
runVars == <<full_prompt, api_calls, failed_at, exit_code, console, out_file>>
cliVars == <<optVars, envVars, runVars>>

connVars == <<env_openlaws_key, conn_api_key, http_requests, http_outcome>>

vars == <<pc, cmd, raised, ctxVars, parseVars, cliVars, connVars>>

----------------------------------------------------------------------------
(* Bounds of the model *)

MaxLaws == 1
MaxPatterns == 2
MaxItems == 1
MaxParts == 4
MaxCalls == 3
MaxRequests == 3

----------------------------------------------------------------------------
(* Generic helpers on sequences *)

EmptyDict == <<>>

SeqsUpTo(S, n) == UNION {[1..k -> S] : k \in 0..n}

RECURSIVE Concat(_)
Concat(ss) == IF ss = <<>> THEN <<>> ELSE Head(ss) \o Concat(Tail(ss))

Occurs(tok, text) == \E i \in 1..Len(text) : text[i] = tok

----------------------------------------------------------------------------
(* Knowledge files: src/knowledge/jurisdictions/<jurisdiction>/<type>.json *)

Jurisdictions == {"us", "china", "eu", "uk"}
ContractTypes == {"employment", "nda", "service", "procurement"}
Pairs == Jurisdictions \X ContractTypes

Severities == {"low", "medium", "high"}
PatternNames == {"p1", "p2"}

Laws == [name : {"law1"}, citation : {"cit1"}, description : {"ldesc"}]

PatternsBase == [name : PatternNames, severity : Severities, description : {"pdesc"}]
RiskPatterns == PatternsBase \cup
                {p @@ ("recommendation" :> "rec") : p \in PatternsBase}

JurisdictionEntries ==
    {EmptyDict} \cup {("primary_laws" :> ls) : ls \in SeqsUpTo(Laws, MaxLaws)}

ChecklistEntries ==
    {EmptyDict} \cup
    {("avoid_these_clauses" :> it) : it \in SeqsUpTo({"item1"}, MaxItems)}

\* every subset of the three top-level keys, each with every bounded value
OptKey(key, values) == {EmptyDict} \cup {(key :> v) : v \in values}

KnowledgeRecords ==
    {a @@ b @@ c :
        a \in OptKey("jurisdiction", JurisdictionEntries),
        b \in OptKey("risk_patterns", SeqsUpTo(RiskPatterns, MaxPatterns)),
        c \in OptKey("compliance_checklist", ChecklistEntries)}

MissingFile == [exists |-> FALSE, valid |-> FALSE, data |-> EmptyDict]
InvalidFile == [exists |-> TRUE, valid |-> FALSE, data |-> EmptyDict]
FileOf(rec) == [exists |-> TRUE, valid |-> TRUE, data |-> rec]

\* a directory holding exactly one knowledge file, at path (j, t)
OnlyFile(j, t, file) ==
    [p \in Pairs |-> IF p = <<j, t>> THEN file ELSE MissingFile]

----------------------------------------------------------------------------
(* Knowledge assembler *)

Returned(v) == [raised |-> "none", value |-> v]
Raises(e) == [raised |-> e, value |-> <<>>]

\* a missing file treated as load_prompt treats a missing template
load_jurisdiction_knowledge_strict(fs, j, t) ==
    LET file == fs[<<j, t>>] IN
    IF file.exists
    THEN IF file.valid THEN Returned(file.data) ELSE Raises("JSONDecodeError")
    ELSE Raises("FileNotFoundError")

load_jurisdiction_knowledge(fs, j, t) ==
    LET file == fs[<<j, t>>] IN
    IF file.exists
    THEN IF file.valid THEN Returned(file.data) ELSE Raises("JSONDecodeError")
    ELSE Returned(EmptyDict)

upper(s) ==
    CASE s = "low" -> "LOW"
      [] s = "medium" -> "MEDIUM"
      [] s = "high" -> "HIGH"
      [] s = "us" -> "US"
      [] s = "china" -> "CHINA"
      [] s = "eu" -> "EU"
      [] s = "uk" -> "UK"
      [] OTHER -> s

LawLine(law) ==
    <<"- **", law.name, "** (", law.citation, "): ", law.description>>

\* the severity written as the file spells it
PatternLines_severity_as_written(p) ==
    << <<"- **", p.name, "** [", p.severity, "]: ", p.description>> >>
    \o (IF "recommendation" \in DOMAIN p
        THEN << <<"  - Recommendation: ", p.recommendation>> >>
        ELSE <<>>)

PatternLines(p) ==
    << <<"- **", p.name, "** [", upper(p.severity), "]: ", p.description>> >>
    \o (IF "recommendation" \in DOMAIN p
        THEN << <<"  - Recommendation: ", p.recommendation>> >>
        ELSE <<>>)

\* "!!" stands for the warning sign of the source
ItemLine(item) == <<"- !! ", item>>

LawsPart(knowledge) ==
    IF "jurisdiction" \in DOMAIN knowledge
       /\ "primary_laws" \in DOMAIN knowledge.jurisdiction
    THEN LET laws == knowledge.jurisdiction.primary_laws IN
         << <<"## Applicable Laws">> >>
         \o [i \in 1..Len(laws) |-> LawLine(laws[i])]
    ELSE <<>>

\* a pattern without a recommendation is skipped
PatternsPart_needs_recommendation(knowledge) ==
    IF "risk_patterns" \in DOMAIN knowledge
    THEN LET ps == knowledge.risk_patterns IN
         << <<"\n## Jurisdiction-Specific Risk Patterns">> >>
         \o Concat([i \in 1..Len(ps) |->
                      IF "recommendation" \in DOMAIN ps[i]
                      THEN PatternLines(ps[i]) ELSE <<>>])
    ELSE <<>>

PatternsPart(knowledge) ==
    IF "risk_patterns" \in DOMAIN knowledge
    THEN LET ps == knowledge.risk_patterns IN
         << <<"\n## Jurisdiction-Specific Risk Patterns">> >>
         \o Concat([i \in 1..Len(ps) |-> PatternLines(ps[i])])
    ELSE <<>>

ChecklistPart(knowledge) ==
    IF "compliance_checklist" \in DOMAIN knowledge
       /\ "avoid_these_clauses" \in DOMAIN knowledge.compliance_checklist
    THEN LET items == knowledge.compliance_checklist.avoid_these_clauses IN
         << <<"\n## Red Flags for This Jurisdiction">> >>
         \o [i \in 1..Len(items) |-> ItemLine(items[i])]
    ELSE <<>>

\* the list cut after a fixed number of entries
context_parts_capped(knowledge) ==
    LET all == LawsPart(knowledge) \o PatternsPart(knowledge) \o ChecklistPart(knowledge)
    IN SubSeq(all, 1, IF Len(all) < 6 THEN Len(all) ELSE 6)

context_parts(knowledge) ==
    LawsPart(knowledge) \o PatternsPart(knowledge) \o ChecklistPart(knowledge)

\* "\n".join(lines)
RECURSIVE Join(_)
Join(lines) ==
    IF lines = <<>> THEN <<>>
    ELSE IF Len(lines) = 1 THEN Head(lines)
    ELSE Head(lines) \o <<"\n">> \o Join(Tail(lines))

build_jurisdiction_context(fs, j, t) ==
    LET loaded == load_jurisdiction_knowledge(fs, j, t) IN
    IF loaded.raised # "none" THEN Raises(loaded.raised)
    ELSE IF loaded.value = EmptyDict THEN Returned(<<>>)
    ELSE Returned(Join(context_parts(loaded.value)))

----------------------------------------------------------------------------
(* Response parser: the tail of extract_key_terms *)

\* the fence lexeme (three backquotes)
FENCE == "FENCE"
QUOTE == "\""

NoResult == [status |-> "none"]

ParseIdle ==
    /\ response_text = <<>>
    /\ n_parts = 0
    /\ result = NoResult

At(t, i) == IF i \in 1..Len(t) THEN t[i] ELSE "EOF"

\* \s
IsSpace(c) == c = " "

RECURSIVE SkipWs(_, _)
SkipWs(t, i) == IF IsSpace(At(t, i)) THEN SkipWs(t, i + 1) ELSE i

\* number of whitespace lexemes starting at index a
WsRun(t, a) == SkipWs(t, a) - a

(* json.loads on the lexemes: a document is a string or an object with at
   most one member, surrounded by optional whitespace. *)
ValStr(chars) == [type |-> "str", chars |-> chars, items |-> <<>>]
ValDict(items) == [type |-> "dict", chars |-> <<>>, items |-> items]

JsonFail == [ok |-> FALSE, val |-> ValStr(<<>>), next |-> 0]
JsonOk(v, n) == [ok |-> TRUE, val |-> v, next |-> n]

ParseString(t, i) ==
    IF At(t, i) # QUOTE THEN JsonFail
    ELSE LET closing == {k \in (i + 1)..Len(t) : t[k] = QUOTE} IN
         IF closing = {} THEN JsonFail
         ELSE LET k == CHOOSE c \in closing : \A d \in closing : c <= d IN
              JsonOk(ValStr(SubSeq(t, i + 1, k - 1)), k + 1)

RECURSIVE ParseValue(_, _)
ParseValue(t, i) ==
    IF At(t, i) = QUOTE THEN ParseString(t, i)
    ELSE IF At(t, i) # "{" THEN JsonFail
    ELSE LET i1 == SkipWs(t, i + 1) IN
         IF At(t, i1) = "}" THEN JsonOk(ValDict(<<>>), i1 + 1)
         ELSE LET k == ParseString(t, i1) IN
              IF ~k.ok THEN JsonFail
              ELSE LET i2 == SkipWs(t, k.next) IN
                   IF At(t, i2) # ":" THEN JsonFail
                   ELSE LET v == ParseValue(t, SkipWs(t, i2 + 1)) IN
                        IF ~v.ok THEN JsonFail
                        ELSE LET i4 == SkipWs(t, v.next) IN
                             IF At(t, i4) = "}"
                             THEN JsonOk(ValDict(<< <<k.val.chars, v.val>> >>), i4 + 1)
                             ELSE JsonFail

\* ok = FALSE stands for json.JSONDecodeError
json_loads(s) ==
    LET v == ParseValue(s, SkipWs(s, 1)) IN
    IF v.ok /\ SkipWs(s, v.next) = Len(s) + 1 THEN v ELSE JsonFail

(* re.search of the fence pattern: fence, optional json tag, whitespace,
   lazy group of anything, whitespace, fence.  A match attempt at
   position p is a choice of: the optional tag taken or not, the length w1
   of the first \s*, the length g of the lazy group, the length w2 of the
   second \s*.  The engine returns the leftmost p that has a match and, at
   that p, the match its backtracking order reaches first. *)
MatchesAt(t, p) ==
    IF At(t, p) # FENCE THEN {}
    ELSE UNION {UNION {UNION {
            {[tag |-> tg, w1 |-> a, g |-> gg, w2 |-> b] :
                b \in {x \in 0..WsRun(t, p + 1 + tg + a + gg) :
                          At(t, p + 1 + tg + a + gg + x) = FENCE}} :
            gg \in 0..(Len(t) - (p + tg + a))} :
            a \in 0..WsRun(t, p + 1 + tg)} :
            tg \in (IF At(t, p + 1) = "json" THEN {0, 1} ELSE {0})}

\* the group made greedy
Before_greedy_group(m, n) ==
    \/ m.tag > n.tag
    \/ m.tag = n.tag /\ m.w1 > n.w1
    \/ m.tag = n.tag /\ m.w1 = n.w1 /\ m.g > n.g
    \/ m.tag = n.tag /\ m.w1 = n.w1 /\ m.g = n.g /\ m.w2 > n.w2

\* greedy ?, greedy *, lazy *?, greedy *
Before(m, n) ==
    \/ m.tag > n.tag
    \/ m.tag = n.tag /\ m.w1 > n.w1
    \/ m.tag = n.tag /\ m.w1 = n.w1 /\ m.g < n.g
    \/ m.tag = n.tag /\ m.w1 = n.w1 /\ m.g = n.g /\ m.w2 > n.w2

\* the last fenced block taken in place of the first
re_search_last(t) ==
    LET starts == {p \in 1..Len(t) : MatchesAt(t, p) # {}} IN
    IF starts = {} THEN [found |-> FALSE, group1 |-> <<>>]
    ELSE LET p == CHOOSE q \in starts : \A r \in starts : q >= r
             ms == MatchesAt(t, p)
             m == CHOOSE x \in ms : \A y \in ms : x = y \/ Before(x, y)
             b == p + 1 + m.tag + m.w1
         IN [found |-> TRUE, group1 |-> SubSeq(t, b, b + m.g - 1)]

re_search(t) ==
    LET starts == {p \in 1..Len(t) : MatchesAt(t, p) # {}} IN
    IF starts = {} THEN [found |-> FALSE, group1 |-> <<>>]
    ELSE LET p == CHOOSE q \in starts : \A r \in starts : q <= r
             ms == MatchesAt(t, p)
             m == CHOOSE x \in ms : \A y \in ms : x = y \/ Before(x, y)
             b == p + 1 + m.tag + m.w1
         IN [found |-> TRUE, group1 |-> SubSeq(t, b, b + m.g - 1)]

fallback(text) == [raw_response |-> text, parse_error |-> TRUE]

\* the except clause left out: the decode error escapes
parse_key_terms_no_except(text) ==
    LET json_match == re_search(text)
        json_str == IF json_match.found THEN json_match.group1 ELSE text
        loaded == json_loads(json_str)
    IN IF loaded.ok THEN loaded.val ELSE [escaped |-> "JSONDecodeError"]

\* the fallback keeps the text handed to json.loads
parse_key_terms_raw_json_str(text) ==
    LET json_match == re_search(text)
        json_str == IF json_match.found THEN json_match.group1 ELSE text
        loaded == json_loads(json_str)
    IN IF loaded.ok THEN loaded.val ELSE fallback(json_str)

\* JSON looked for inside a fence only
parse_key_terms_fence_required(text) ==
    LET json_match == re_search(text)
        loaded == json_loads(json_match.group1)
    IN IF json_match.found /\ loaded.ok THEN loaded.val ELSE fallback(text)

parse_key_terms(text) ==
    LET json_match == re_search(text)
        json_str == IF json_match.found THEN json_match.group1 ELSE text
        loaded == json_loads(json_str)
    IN IF loaded.ok THEN loaded.val ELSE fallback(text)

Usage == [input_tokens |-> 1, output_tokens |-> 1]

extract_result(text, usage) ==
    [status |-> "success", key_terms |-> parse_key_terms(text), usage |-> usage]

----------------------------------------------------------------------------
(* Specification of the response parser as a function of the response:
   the remote model generates the response piece by piece, then the tail
   of extract_key_terms parses it. *)

Segments ==
    { <<FENCE>>, <<"json">>, <<" ">>, <<"x">>,
      <<"{", "}">>,
      <<QUOTE, "x", QUOTE>>,
      <<"{", QUOTE, "k", QUOTE, ":", " ", QUOTE, "x", QUOTE, "}">>,
      <<"{", QUOTE, "k", QUOTE, ":", QUOTE, FENCE, QUOTE, "}">>,
      <<"{", QUOTE, "parse_error", QUOTE, ":", QUOTE, "x", QUOTE, "}">>,
      <<"{", QUOTE>>,
      <<FENCE, "x", FENCE>> }

CtxIdle ==
    /\ jurisdiction = "auto"
    /\ contract_type = "employment"
    /\ fs_knowledge = [p \in Pairs |-> MissingFile]
    /\ jurisdiction_context = <<>>

NoFile == [written |-> FALSE, form |-> "none", body |-> <<>>]

CliIdle ==
    /\ api_key_set = FALSE
    /\ format = "markdown"
    /\ output = FALSE
    /\ docx_available = FALSE
    /\ template = "unread"
    /\ patterns_file = "unread"
    /\ pdf = "unread"
    /\ full_prompt = <<>>
    /\ api_calls = 0
    /\ failed_at = "none"
    /\ exit_code = -1
    /\ console = {}
    /\ out_file = NoFile

NoOutcome == [kind |-> "none", code |-> 0, body |-> EmptyDict]

ConnIdle ==
    /\ env_openlaws_key = FALSE
    /\ conn_api_key = FALSE
    /\ http_requests = 0
    /\ http_outcome = NoOutcome

ParseInit ==
    /\ pc = "generating"
    /\ cmd = "extract_key_terms"
    /\ raised = "none"
    /\ ParseIdle
    /\ CtxIdle
    /\ CliIdle
    /\ ConnIdle

Generate ==
    /\ pc = "generating"
    /\ n_parts < MaxParts
    /\ \E seg \in Segments : response_text' = response_text \o seg
    /\ n_parts' = n_parts + 1
    /\ UNCHANGED <<pc, cmd, raised, result, ctxVars, cliVars, connVars>>

ParseResponse ==
    /\ pc = "generating"
    /\ result' = extract_result(response_text, Usage)
    /\ pc' = "returned"
    /\ UNCHANGED <<cmd, raised, response_text, n_parts, ctxVars, cliVars, connVars>>

ParseNext == Generate \/ ParseResponse

ParseSpec == ParseInit /\ [][ParseNext]_vars

----------------------------------------------------------------------------
(* What a reader of the response sees: the fence markers pair up in order
   of appearance, and a fenced block is the text between the markers of a
   pair, after the json tag if the opening marker carries one. *)

FencePos(t) == {i \in 1..Len(t) : t[i] = FENCE}
NumFences(t) == Cardinality(FencePos(t))
NthFence(t, k) ==
    CHOOSE i \in FencePos(t) : Cardinality({j \in FencePos(t) : j < i}) = k - 1
BlockContent(t, i, j) ==
    SubSeq(t, IF At(t, i + 1) = "json" THEN i + 2 ELSE i + 1, j - 1)
\* content of the m-th fenced block
Block(t, m) == BlockContent(t, NthFence(t, 2 * m - 1), NthFence(t, 2 * m))
NumBlocks(t) == NumFences(t) \div 2
IsJson(s) == json_loads(s).ok
IsJsonObject(s) == json_loads(s).ok /\ json_loads(s).val.type = "dict"

\* C2 as stated: a response that contains a fenced JSON block yields as
\* key_terms exactly the JSON object written inside that fence.
C2_AnyFencedJsonBlockExtracted ==
    (pc = "returned"
        /\ \E m \in 1..NumBlocks(response_text) :
              IsJsonObject(Block(response_text, m)))
    => \E m \in 1..NumBlocks(response_text) :
          /\ IsJsonObject(Block(response_text, m))
          /\ result.key_terms = json_loads(Block(response_text, m)).val

\* C2 amended: when the first fenced block of the response is valid JSON,
\* key_terms is exactly the JSON value written inside that first block.
C2_FirstFencedJsonBlockExtracted ==
    (pc = "returned" /\ NumBlocks(response_text) >= 1
        /\ IsJson(Block(response_text, 1)))
    => result.key_terms = json_loads(Block(response_text, 1)).val

C2_Witness ==
    /\ pc = "returned"
    /\ NumBlocks(response_text) = 1
    /\ response_text[1] = "x"
    /\ IsJsonObject(Block(response_text, 1))
    /\ result.key_terms = ValDict(<< <<(<<"k">>), ValStr(<<"x">>)>> >>)

\* C3: a response with no fenced block that is not valid JSON yields
\* key_terms = {raw_response: the whole response text, parse_error: true}.
C3_NoFenceInvalidJsonFallsBack ==
    (pc = "returned" /\ NumBlocks(response_text) = 0 /\ ~IsJson(response_text))
    => result.key_terms = [raw_response |-> response_text, parse_error |-> TRUE]

C3_Witness ==
    /\ pc = "returned"
    /\ NumFences(response_text) = 1
    /\ Len(response_text) >= 3
    /\ ~IsJson(response_text)
    /\ result.key_terms = [raw_response |-> response_text, parse_error |-> TRUE]

\* C8: when the first fenced block is located but its content is not valid
\* JSON, extract_key_terms returns status "success" with key_terms =
\* {raw_response, parse_error: true}, raw_response being the entire response
\* text and not the fenced content.
C8_InvalidFenceContentFallsBackToWholeText ==
    (pc = "returned" /\ NumBlocks(response_text) >= 1
        /\ ~IsJson(Block(response_text, 1)))
    => /\ result.status = "success"
       /\ result.key_terms = [raw_response |-> response_text, parse_error |-> TRUE]

C8_Witness ==
    /\ pc = "returned"
    /\ NumBlocks(response_text) = 1
    /\ Block(response_text, 1) = <<"{", QUOTE>>
    /\ Len(response_text) > 4
    /\ result.status = "success"
    /\ result.key_terms.raw_response = response_text

----------------------------------------------------------------------------
(* Specification of the knowledge assembler as a function of the files *)

KnowledgeFiles == {MissingFile, InvalidFile} \cup {FileOf(r) : r \in KnowledgeRecords}

\* the pairs the function is called with: the default contract type and
\* another one, each under its own jurisdiction
RequestedPairs == {<<"us", "employment">>, <<"china", "nda">>}

CtxInit ==
    /\ pc = "ctx_call"
    /\ cmd = "build_jurisdiction_context"
    /\ \E pair \in RequestedPairs :
          /\ jurisdiction = pair[1]
          /\ contract_type = pair[2]
    /\ \E file \in KnowledgeFiles :
          fs_knowledge = OnlyFile(jurisdiction, contract_type, file)
    /\ jurisdiction_context = <<>>
    /\ raised = "none"
    /\ ParseIdle
    /\ CliIdle
    /\ ConnIdle

BuildContext ==
    /\ pc = "ctx_call"
    /\ LET r == build_jurisdiction_context(fs_knowledge, jurisdiction, contract_type) IN
       /\ jurisdiction_context' = r.value
       /\ raised' = r.raised
    /\ pc' = "ctx_done"
    /\ UNCHANGED <<cmd, jurisdiction, contract_type, fs_knowledge, parseVars, cliVars, connVars>>

CtxNext == BuildContext

CtxSpec == CtxInit /\ [][CtxNext]_vars

TheFile == fs_knowledge[<<jurisdiction, contract_type>>]

\* C1: whenever the knowledge file of the requested pair is present, the
\* string returned by build_jurisdiction_context contains the name of every
\* risk pattern listed under risk_patterns in that file.
C1_ContextHasEveryPatternName ==
    (pc = "ctx_done" /\ TheFile.exists /\ TheFile.valid
        /\ "risk_patterns" \in DOMAIN TheFile.data)
    => /\ raised = "none"
       /\ \A i \in 1..Len(TheFile.data.risk_patterns) :
             Occurs(TheFile.data.risk_patterns[i].name, jurisdiction_context)

C1_Witness ==
    /\ pc = "ctx_done"
    /\ TheFile.exists /\ TheFile.valid
    /\ "risk_patterns" \in DOMAIN TheFile.data
    /\ Len(TheFile.data.risk_patterns) = 2
    /\ TheFile.data.risk_patterns[1].name # TheFile.data.risk_patterns[2].name
    /\ Occurs(TheFile.data.risk_patterns[2].name, jurisdiction_context)

----------------------------------------------------------------------------
(* The command-line interface: cli.py on top of src/analyze.py *)

Commands == {"analyze", "check", "compare", "extract", "export",
             "jurisdictions", "info"}
ApiCommands == {"analyze", "check", "compare", "extract"}

\* exceptions the anthropic client raises from messages.create
ApiErrors == {"APIConnectionError", "APIStatusError"}

\* classes derived from Exception among the exceptions of the model
ExceptionClasses ==
    ApiErrors \cup {"FileNotFoundError", "JSONDecodeError", "OSError", "IndexError"}

\* texts the remote model may answer with
Replies ==
    { <<"x">>,
      <<"x", FENCE, "json", " ", "{", "}", " ", FENCE>>,
      <<FENCE, "x", FENCE, FENCE, "{", "}", FENCE>>,
      <<"{", "}">> }

\* knowledge files found at the requested path
KnowledgeSamples ==
    { MissingFile, InvalidFile, FileOf(EmptyDict),
      FileOf(("jurisdiction" :> ("primary_laws" :>
                  << [name |-> "law1", citation |-> "cit1", description |-> "ldesc"] >>))),
      FileOf(("risk_patterns" :>
                  << [name |-> "p1", severity |-> "high", description |-> "pdesc"]
                       @@ ("recommendation" :> "rec"),
                     [name |-> "p2", severity |-> "low", description |-> "pdesc"] >>)
             @@ ("compliance_checklist" :> ("avoid_these_clauses" :> <<"item1">>))) }

CliInit ==
    /\ pc = "start"
    /\ cmd \in Commands
    /\ raised = "none"
    /\ api_key_set \in BOOLEAN
    /\ format \in (CASE cmd = "analyze" -> {"markdown", "json"}
                     [] cmd = "export" -> {"markdown", "docx"}
                     [] OTHER -> {"markdown"})
    /\ output \in (IF cmd \in ApiCommands THEN BOOLEAN ELSE {FALSE})
    /\ docx_available \in (IF cmd = "export" THEN BOOLEAN ELSE {TRUE})
    /\ jurisdiction \in (IF cmd \in {"analyze", "jurisdictions"}
                         THEN Jurisdictions \cup {"auto"} ELSE {"auto"})
    /\ contract_type \in (IF cmd = "analyze" THEN ContractTypes ELSE {"employment"})
    /\ \E file \in KnowledgeSamples :
          fs_knowledge = OnlyFile(IF jurisdiction = "auto" THEN "us" ELSE jurisdiction,
                                  contract_type, file)
    /\ jurisdiction_context = <<>>
    /\ ParseIdle
    /\ template = "unread"
    /\ patterns_file = "unread"
    /\ pdf = "unread"
    /\ full_prompt = <<>>
    /\ api_calls = 0
    /\ failed_at = "none"
    /\ exit_code = -1
    /\ console = {}
    /\ out_file = NoFile
    /\ ConnIdle

\* a handler that names one class of the client's errors only
handled_status_error_only(e) == e \in {"APIStatusError", "FileNotFoundError",
                                         "JSONDecodeError", "OSError", "IndexError"}

\* `except Exception as e` of the four API commands
handled(e) == e \in ExceptionClasses

(* An exception e leaves the library function at the given stage: the
   handler of the command prints it and exits with status 1; an exception
   it does not catch ends the process with a traceback. *)
Abort(e, stage) ==
    /\ raised' = e
    /\ failed_at' = stage
    /\ exit_code' = 1
    /\ IF handled(e)
       THEN pc' = "exited" /\ console' = console \cup {"Error: exception"}
       ELSE pc' = "crashed" /\ console' = console \cup {"Traceback"}

\* an exception outside any try block
Crash(e, stage) ==
    /\ raised' = e
    /\ failed_at' = stage
    /\ exit_code' = 1
    /\ pc' = "crashed"
    /\ console' = console \cup {"Traceback"}

\* click.Path(exists=True) on the file arguments
ClickValidate ==
    /\ pc = "start"
    /\ cmd \in ApiCommands \cup {"export"}
    /\ \E exists \in BOOLEAN :
          IF exists
          THEN /\ pdf' = "exists"
               /\ pc' = IF cmd = "export" THEN "read_input" ELSE "check_api_key"
               /\ UNCHANGED <<exit_code, console, failed_at>>
          ELSE /\ pdf' = "missing"
               /\ pc' = "exited"
               /\ exit_code' = 2
               /\ console' = console \cup {"Usage error"}
               /\ failed_at' = "click"
    /\ UNCHANGED <<cmd, raised, ctxVars, parseVars, optVars, template,
                   patterns_file, full_prompt, api_calls, out_file, connVars>>

\* the message printed without the exit
check_api_key_warn_only ==
    /\ pc = "check_api_key"
    /\ pc' = IF cmd = "analyze" THEN "load_prompt" ELSE "encode_pdf"
    /\ console' = IF api_key_set THEN console
                  ELSE console \cup {"Error: ANTHROPIC_API_KEY not set."}
    /\ UNCHANGED <<exit_code, failed_at>>
    /\ UNCHANGED <<cmd, raised, ctxVars, parseVars, optVars, envVars,
                   full_prompt, api_calls, out_file, connVars>>

check_api_key ==
    /\ pc = "check_api_key"
    /\ IF api_key_set
       THEN /\ pc' = IF cmd = "analyze" THEN "load_prompt" ELSE "encode_pdf"
            /\ UNCHANGED <<exit_code, console, failed_at>>
       ELSE /\ pc' = "exited"
            /\ exit_code' = 1
            /\ console' = console \cup {"Error: ANTHROPIC_API_KEY not set."}
            /\ failed_at' = "check_api_key"
    /\ UNCHANGED <<cmd, raised, ctxVars, parseVars, optVars, envVars,
                   full_prompt, api_calls, out_file, connVars>>

\* a missing template answered with an empty prompt, as the knowledge loaders do
load_prompt_silent ==
    /\ pc = "load_prompt"
    /\ \E found \in BOOLEAN :
          /\ template' = IF found THEN "found" ELSE "missing"
          /\ pc' = "load_risk_patterns"
          /\ UNCHANGED <<raised, failed_at, exit_code, console>>
    /\ UNCHANGED <<cmd, ctxVars, parseVars, optVars, patterns_file, pdf,
                   full_prompt, api_calls, out_file, connVars>>

load_prompt ==
    /\ pc = "load_prompt"
    /\ \E found \in BOOLEAN :
          IF found
          THEN /\ template' = "found"
               /\ pc' = "load_risk_patterns"
               /\ UNCHANGED <<raised, failed_at, exit_code, console>>
          ELSE /\ template' = "missing"
               /\ Abort("FileNotFoundError", "load_prompt")
    /\ UNCHANGED <<cmd, ctxVars, parseVars, optVars, patterns_file, pdf,
                   full_prompt, api_calls, out_file, connVars>>

load_risk_patterns ==
    /\ pc = "load_risk_patterns"
    /\ \E st \in {"missing", "valid", "invalid"} :
          /\ patterns_file' = st
          /\ IF st = "invalid"
             THEN Abort("JSONDecodeError", "load_risk_patterns")
             ELSE /\ pc' = "knowledge"
                  /\ UNCHANGED <<raised, failed_at, exit_code, console>>
    /\ UNCHANGED <<cmd, ctxVars, parseVars, optVars, template, pdf,
                   full_prompt, api_calls, out_file, connVars>>

\* analyze_contract, lines 145-147, with jurisdiction None for "auto"
AssembleKnowledge ==
    /\ pc = "knowledge"
    /\ IF jurisdiction # "auto"
       THEN LET r == build_jurisdiction_context(fs_knowledge, jurisdiction, contract_type) IN
            IF r.raised # "none"
            THEN /\ Abort(r.raised, "knowledge")
                 /\ UNCHANGED jurisdiction_context
            ELSE /\ jurisdiction_context' = r.value
                 /\ pc' = "encode_pdf"
                 /\ UNCHANGED <<raised, failed_at, exit_code, console>>
       ELSE /\ jurisdiction_context' = <<>>
            /\ pc' = "encode_pdf"
            /\ UNCHANGED <<raised, failed_at, exit_code, console>>
    /\ UNCHANGED <<cmd, jurisdiction, contract_type, fs_knowledge, parseVars,
                   optVars, envVars, full_prompt, api_calls, out_file, connVars>>

\* a PDF that cannot be read sent on as an empty document
encode_pdf_lenient ==
    /\ pc = "encode_pdf"
    /\ \E readable \in BOOLEAN :
          /\ pdf' = IF readable THEN "encoded" ELSE "unreadable"
          /\ pc' = "call_api"
          /\ UNCHANGED <<raised, failed_at, exit_code, console>>
    /\ UNCHANGED <<cmd, ctxVars, parseVars, optVars, template, patterns_file,
                   full_prompt, api_calls, out_file, connVars>>

encode_pdf ==
    /\ pc = "encode_pdf"
    /\ \E readable \in BOOLEAN :
          IF readable
          THEN /\ pdf' = "encoded"
               /\ pc' = "call_api"
               /\ UNCHANGED <<raised, failed_at, exit_code, console>>
          ELSE /\ pdf' = "unreadable"
               /\ Abort("OSError", "encode_pdf")
    /\ UNCHANGED <<cmd, ctxVars, parseVars, optVars, template, patterns_file,
                   full_prompt, api_calls, out_file, connVars>>

\* risk_patterns as load_risk_patterns returns it, through json.dumps
dumps_risk_patterns(st) ==
    IF st = "valid" THEN <<"{patterns: [general patterns]}">>
    ELSE <<"{patterns: []}">>

\* the section written for every named jurisdiction
jurisdiction_section_unconditional(j, ctx) ==
    IF j # "auto"
    THEN <<"\n## Jurisdiction-Specific Legal Context (", upper(j), ")\n\n">>
         \o ctx
         \o <<"\n\nWhen analyzing this contract, pay special attention ...\n">>
    ELSE <<>>

jurisdiction_section(j, ctx) ==
    IF ctx # <<>>
    THEN <<"\n## Jurisdiction-Specific Legal Context (", upper(j), ")\n\n">>
         \o ctx
         \o <<"\n\nWhen analyzing this contract, pay special attention ...\n">>
    ELSE <<>>

build_full_prompt(st, j, ctx) ==
    <<"risk_analysis.md", "\n\n## General Risk Patterns Reference\n\n">>
    \o dumps_risk_patterns(st)
    \o <<"\n">>
    \o jurisdiction_section(j, ctx)
    \o <<"---\n\nPlease analyze the attached contract ...">>

prompt_of(c, st, j, ctx) ==
    CASE c = "analyze" -> build_full_prompt(st, j, ctx)
      [] c = "check" -> <<"Check the completeness of this contract ...">>
      [] c = "compare" -> <<"Compare these two contracts ...">>
      [] OTHER -> <<"Extract key terms from this contract ...">>

\* a response that does not parse reported as a failed extraction
result_of_parse_error_status(c, text, usage) ==
    CASE c = "analyze" ->
            [status |-> "success", analysis |-> text,
             model |-> "claude-sonnet-4-20250514", usage |-> usage]
      [] c = "check" -> [status |-> "success", result |-> text, usage |-> usage]
      [] c = "compare" -> [status |-> "success", comparison |-> text, usage |-> usage]
      [] OTHER ->
            IF parse_key_terms(text) = fallback(text)
            THEN [status |-> "error", key_terms |-> fallback(text), usage |-> usage]
            ELSE extract_result(text, usage)

\* the dict each library function returns after a successful call
result_of(c, text, usage) ==
    CASE c = "analyze" ->
            [status |-> "success", analysis |-> text,
             model |-> "claude-sonnet-4-20250514", usage |-> usage]
      [] c = "check" -> [status |-> "success", result |-> text, usage |-> usage]
      [] c = "compare" -> [status |-> "success", comparison |-> text, usage |-> usage]
      [] OTHER -> extract_result(text, usage)

\* a failed call made again
messages_create_retry ==
    /\ pc = "call_api"
    /\ api_calls < MaxCalls
    /\ api_calls' = api_calls + 1
    /\ full_prompt' = prompt_of(cmd, patterns_file, jurisdiction, jurisdiction_context)
    /\ \/ /\ UNCHANGED <<pc, raised, failed_at, exit_code, console>>
          /\ UNCHANGED <<response_text, result>>
       \/ \E text \in Replies :
             /\ response_text' = text
             /\ result' = result_of(cmd, text, Usage)
             /\ pc' = "output"
             /\ UNCHANGED <<raised, failed_at, exit_code, console>>
    /\ UNCHANGED <<cmd, ctxVars, n_parts, optVars, envVars, out_file, connVars>>

(* client.messages.create and the return of the library function: the call
   raises, or answers with an empty content list, or answers with a text. *)
messages_create ==
    /\ pc = "call_api"
    /\ api_calls' = api_calls + 1
    /\ full_prompt' = prompt_of(cmd, patterns_file, jurisdiction, jurisdiction_context)
    /\ \/ \E e \in ApiErrors :
             /\ Abort(e, "call_api")
             /\ UNCHANGED <<response_text, result>>
       \/ /\ Abort("IndexError", "response")
          /\ UNCHANGED <<response_text, result>>
       \/ \E text \in Replies :
             /\ response_text' = text
             /\ result' = result_of(cmd, text, Usage)
             /\ pc' = "output"
             /\ UNCHANGED <<raised, failed_at, exit_code, console>>
    /\ UNCHANGED <<cmd, ctxVars, n_parts, optVars, envVars, out_file, connVars>>

\* what the command passes to write_text or to console.print
payload_of(c, res) ==
    CASE c = "analyze" -> [form |-> "text", body |-> res.analysis]
      [] c = "check" -> [form |-> "text", body |-> res.result]
      [] c = "compare" -> [form |-> "text", body |-> res.comparison]
      [] OTHER -> [form |-> "json", body |-> <<res.key_terms>>]

display_of(c) == IF c = "extract" THEN "Displayed: json.dumps" ELSE "Displayed: Markdown"

\* Path(output).write_text: the file is written; or it cannot be opened
\* and stays as it was; or it is opened, which empties it, and the write
\* fails. The call stands outside the try block.
WriteOutcomes == {"written", "open_fails", "write_fails"}

TruncatedFile == [written |-> TRUE, form |-> "truncated", body |-> <<>>]

\* the part of each API command after the try block
write_output ==
    /\ pc = "output"
    /\ IF result.status = "success"
       THEN IF output
            THEN \E w \in WriteOutcomes :
                    IF w = "written"
                    THEN /\ out_file' = [written |-> TRUE,
                                         form |-> payload_of(cmd, result).form,
                                         body |-> payload_of(cmd, result).body]
                         /\ console' = console \cup {"Tokens used", "Saved to"}
                         /\ pc' = "exited"
                         /\ exit_code' = 0
                         /\ UNCHANGED <<raised, failed_at>>
                    ELSE /\ Crash("OSError", "write_output")
                         /\ out_file' = IF w = "write_fails" THEN TruncatedFile
                                        ELSE out_file
            ELSE /\ console' = console \cup {"Tokens used", display_of(cmd)}
                 /\ pc' = "exited"
                 /\ exit_code' = 0
                 /\ UNCHANGED <<raised, failed_at, out_file>>
       ELSE /\ console' = console \cup {"failed"}
            /\ pc' = "exited"
            /\ exit_code' = 1
            /\ UNCHANGED <<raised, failed_at, out_file>>
    /\ UNCHANGED <<cmd, ctxVars, parseVars, optVars, envVars, full_prompt, api_calls, connVars>>

----------------------------------------------------------------------------
(* export, jurisdictions, info *)

\* export, lines 253-258
read_input ==
    /\ pc = "read_input"
    /\ \/ \E text \in Replies :
             /\ response_text' = text
             /\ pc' = "generate_report"
             /\ UNCHANGED <<failed_at, exit_code, console>>
       \/ /\ console' = console \cup {"Error reading input file"}
          /\ failed_at' = "read_input"
          /\ exit_code' = 1
          /\ pc' = "exited"
          /\ UNCHANGED response_text
    /\ UNCHANGED <<cmd, raised, ctxVars, n_parts, result, optVars, envVars,
                   full_prompt, api_calls, out_file, connVars>>

\* the test of DOCX_AVAILABLE left out
generate_report_docx_unchecked(analysis, fmt, docx) ==
    CASE fmt = "markdown" ->
            [result |-> [status |-> "success", output_path |-> "output_path",
                         format |-> "markdown"],
             file |-> [written |-> TRUE, form |-> "markdown",
                       body |-> <<"# title", "Generated", "---">> \o analysis
                                \o <<"---", "footer">>]]
      [] fmt = "docx" ->
            [result |-> [status |-> "success", output_path |-> "output_path",
                         format |-> "docx"],
             file |-> [written |-> TRUE, form |-> "docx",
                       body |-> <<"heading title", "Generated">> \o analysis
                                \o <<"footer">>]]
      [] OTHER ->
            [result |-> [status |-> "error", message |-> "Unknown format"],
             file |-> NoFile]

\* the returned dict and the file written, if any
generate_report(analysis, fmt, docx) ==
    CASE fmt = "markdown" ->
            [result |-> [status |-> "success", output_path |-> "output_path",
                         format |-> "markdown"],
             file |-> [written |-> TRUE, form |-> "markdown",
                       body |-> <<"# title", "Generated", "---">> \o analysis
                                \o <<"---", "footer">>]]
      [] fmt = "docx" /\ ~docx ->
            [result |-> [status |-> "error",
                         message |-> "python-docx not installed"],
             file |-> NoFile]
      [] fmt = "docx" /\ docx ->
            [result |-> [status |-> "success", output_path |-> "output_path",
                         format |-> "docx"],
             file |-> [written |-> TRUE, form |-> "docx",
                       body |-> <<"heading title", "Generated">> \o analysis
                                \o <<"footer">>]]
      [] OTHER ->
            [result |-> [status |-> "error", message |-> "Unknown format"],
             file |-> NoFile]

\* export, lines 260-273; an error of the write inside generate_report is
\* not caught by export
export_report ==
    /\ pc = "generate_report"
    /\ LET r == generate_report(response_text, format, docx_available) IN
       \E w \in WriteOutcomes :
          IF r.file.written /\ w # "written"
          THEN /\ Crash("OSError", "generate_report")
               /\ out_file' = IF w = "write_fails" THEN TruncatedFile ELSE out_file
               /\ UNCHANGED result
          ELSE /\ result' = r.result
               /\ IF r.file.written THEN out_file' = r.file ELSE UNCHANGED out_file
               /\ IF r.result.status = "success"
                  THEN /\ console' = console \cup {"Report exported to"}
                       /\ exit_code' = 0
                       /\ UNCHANGED failed_at
                  ELSE /\ console' = console \cup {"Export failed"}
                       /\ exit_code' = 1
                       /\ failed_at' = "generate_report"
               /\ pc' = "exited"
               /\ UNCHANGED raised
    /\ UNCHANGED <<cmd, ctxVars, response_text, n_parts, optVars,
                   envVars, full_prompt, api_calls, connVars>>

get_available_jurisdictions(fs) ==
    {j \in Jurisdictions : \E t \in ContractTypes : fs[<<j, t>>].exists}

jurisdictions_cmd ==
    /\ pc = "start"
    /\ cmd = "jurisdictions"
    /\ IF get_available_jurisdictions(fs_knowledge) = {}
       THEN /\ console' = console \cup {"No jurisdiction knowledge bases found."}
            /\ pc' = "exited" /\ exit_code' = 0
            /\ UNCHANGED <<raised, failed_at>>
       ELSE IF jurisdiction # "auto"
       THEN LET k == load_jurisdiction_knowledge(fs_knowledge, jurisdiction, "employment") IN
            IF k.raised # "none" THEN Crash(k.raised, "jurisdictions")
            ELSE /\ console' = console \cup
                        {IF k.value = EmptyDict THEN "No knowledge base found for"
                         ELSE "Jurisdiction details"}
                 /\ pc' = "exited" /\ exit_code' = 0
                 /\ UNCHANGED <<raised, failed_at>>
       ELSE /\ console' = console \cup {"Available Jurisdiction Knowledge Bases"}
            /\ pc' = "exited" /\ exit_code' = 0
            /\ UNCHANGED <<raised, failed_at>>
    /\ UNCHANGED <<cmd, ctxVars, parseVars, optVars, envVars, full_prompt,
                   api_calls, out_file, connVars>>

info ==
    /\ pc = "start"
    /\ cmd = "info"
    /\ console' = console \cup {"Info"}
    /\ pc' = "exited"
    /\ exit_code' = 0
    /\ UNCHANGED <<cmd, raised, ctxVars, parseVars, optVars, envVars,
                   full_prompt, api_calls, failed_at, out_file, connVars>>

Next ==
    \/ ClickValidate
    \/ check_api_key
    \/ load_prompt
    \/ load_risk_patterns
    \/ AssembleKnowledge
    \/ encode_pdf
    \/ messages_create
    \/ write_output
    \/ read_input
    \/ export_report
    \/ jurisdictions_cmd
    \/ info

Spec == CliInit /\ [][Next]_vars

----------------------------------------------------------------------------
(* Properties of the command-line interface *)

Ended == pc \in {"exited", "crashed"}
SectionHeader == "\n## Jurisdiction-Specific Legal Context ("

\* C4: when the knowledge file of the requested pair does not exist,
\* build_jurisdiction_context returns the empty string without raising, and
\* analyze_contract goes on to the API call with a prompt that has no
\* jurisdiction section.
C4_MissingKnowledgeIsSilent ==
    (cmd = "analyze" /\ jurisdiction # "auto" /\ ~TheFile.exists)
    => /\ jurisdiction_context = <<>>
       /\ failed_at # "knowledge"
       /\ (Ended /\ failed_at \notin {"click", "check_api_key", "load_prompt",
                                       "load_risk_patterns", "encode_pdf"})
            => api_calls = 1
       /\ api_calls = 1 => /\ full_prompt # <<>>
                           /\ ~Occurs(SectionHeader, full_prompt)

C4_Witness ==
    /\ cmd = "analyze" /\ jurisdiction = "china" /\ ~TheFile.exists
    /\ api_calls = 1
    /\ pc = "exited" /\ exit_code = 0

\* C5: in one invocation of any command the remote API is called at most
\* once, and after a call that failed the process has ended: the call is
\* not made again.
C5_AtMostOneApiCall ==
    /\ api_calls <= 1
    /\ cmd \notin ApiCommands => api_calls = 0
    /\ failed_at \in {"call_api", "response"} => Ended /\ api_calls = 1

C5_Witness ==
    /\ api_calls = 1
    /\ failed_at = "call_api"
    /\ pc = "exited"

\* C6 as stated: when the prompt template, risk_patterns.json or the
\* jurisdiction knowledge file is not found, analyze ends with a non-zero
\* exit code.
C6_AnyMissingResourceFails ==
    (cmd = "analyze" /\ Ended
        /\ \/ template = "missing"
           \/ patterns_file = "missing"
           \/ jurisdiction # "auto" /\ ~TheFile.exists)
    => exit_code # 0

\* C6 amended: when the risk_analysis prompt template is not found, analyze
\* ends with exit code 1 and an error message; a risk_patterns.json or a
\* jurisdiction knowledge file that is not found never makes the command
\* fail (only an unreadable one does).
C6_MissingTemplateFails ==
    cmd = "analyze"
    => /\ template = "missing"
            => pc = "exited" /\ exit_code = 1 /\ "Error: exception" \in console
       /\ failed_at = "load_risk_patterns" => patterns_file = "invalid"
       /\ failed_at = "knowledge" => TheFile.exists

C6_Witness ==
    /\ cmd = "analyze"
    /\ template = "missing"
    /\ raised = "FileNotFoundError"
    /\ exit_code = 1

\* C7: when the remote call raises in analyze, check, compare or extract,
\* the command prints a failure message and exits with code 1; the
\* exception does not escape as an unhandled crash.
C7_ApiErrorExitsWithCode1 ==
    (cmd \in ApiCommands /\ failed_at = "call_api")
    => /\ pc = "exited"
       /\ exit_code = 1
       /\ "Error: exception" \in console
       /\ "Traceback" \notin console

C7_Witness ==
    /\ cmd = "compare"
    /\ failed_at = "call_api"
    /\ raised = "APIConnectionError"
    /\ exit_code = 1

\* C9: the format flag chooses the form of the output: analyze writes or
\* displays JSON under --format json and Markdown under --format markdown;
\* export writes a DOCX file under --format docx and a Markdown file under
\* --format markdown.
C9_FormatFlagChoosesOutputForm ==
    (pc = "exited" /\ exit_code = 0)
    => /\ cmd = "analyze" /\ output
            => out_file.form = (IF format = "json" THEN "json" ELSE "text")
       /\ cmd = "analyze" /\ ~output
            => (IF format = "json" THEN "Displayed: json.dumps"
                ELSE "Displayed: Markdown") \in console
       /\ cmd = "export" => out_file.form = format

----------------------------------------------------------------------------
(* External knowledge connector: OpenLawsConnector on BaseKnowledgeConnector *)

\* what the service may do with a request
Bodies ==
    { EmptyDict,
      ("results" :> <<>>),
      ("results" :> <<"hit1">>),
      ("text" :> "statute text") }

HttpOutcomes ==
    {[kind |-> "timeout", code |-> 0, body |-> EmptyDict]}
    \cup {[kind |-> "response", code |-> c, body |-> EmptyDict] : c \in {404, 500}}
    \cup {[kind |-> "response", code |-> 200, body |-> b] : b \in Bodies}

(* Values returned by the methods of the connector: raised names the
   exception that leaves the method ("none" when it returns), none tells
   that the returned value is None, printed that the error line was
   printed, sent that requests.get was reached. *)
ConnValue(v, printed, sent) ==
    [raised |-> "none", status |-> 0, value |-> v, none |-> FALSE,
     printed |-> printed, sent |-> sent]
ConnNone(sent) ==
    [raised |-> "none", status |-> 0, value |-> EmptyDict, none |-> TRUE,
     printed |-> FALSE, sent |-> sent]
ConnRaise(e, status, sent) ==
    [raised |-> e, status |-> status, value |-> EmptyDict, none |-> FALSE,
     printed |-> FALSE, sent |-> sent]

_make_request(key, outcome) ==
    IF ~key THEN ConnRaise("ValueError", 0, FALSE)
    ELSE IF outcome.kind = "timeout" THEN ConnRaise("Timeout", 0, TRUE)
    ELSE IF outcome.code >= 400 THEN ConnRaise("HTTPError", outcome.code, TRUE)
    ELSE ConnValue(outcome.body, FALSE, TRUE)

\* dict.get(key, default)
get(d, key, default) == IF key \in DOMAIN d THEN d[key] ELSE default

\* a handler for the errors of the requests library only
search_catches_request_errors_only(key, outcome) ==
    LET r == _make_request(key, outcome) IN
    IF r.raised = "none"
    THEN ConnValue(get(r.value, "results", <<>>), FALSE, r.sent)
    ELSE IF r.raised = "ValueError" THEN r
    ELSE ConnValue(<<>>, TRUE, r.sent)

search(key, outcome) ==
    LET r == _make_request(key, outcome) IN
    IF r.raised = "none"
    THEN ConnValue(get(r.value, "results", <<>>), FALSE, r.sent)
    ELSE ConnValue(<<>>, TRUE, r.sent)

get_by_citation_any_http_error(key, outcome) ==
    LET r == _make_request(key, outcome) IN
    IF r.raised = "HTTPError" THEN ConnNone(r.sent)
    ELSE r

get_by_citation(key, outcome) ==
    LET r == _make_request(key, outcome) IN
    IF r.raised = "HTTPError" /\ r.status = 404 THEN ConnNone(r.sent)
    ELSE r

validate_citation(key, outcome) ==
    LET r == get_by_citation(key, outcome) IN
    IF r.raised # "none" THEN r
    ELSE ConnValue(~r.none, FALSE, r.sent)

health_check(key, outcome) ==
    LET r == search(key, outcome) IN
    IF r.raised # "none" THEN ConnValue(FALSE, r.printed, r.sent)
    ELSE ConnValue(TRUE, r.printed, r.sent)

\* a dict is true when it is not empty
truthy(d) == DOMAIN d # {}

get_statute_text(key, outcome) ==
    LET r == get_by_citation(key, outcome) IN
    IF r.raised # "none" THEN r
    ELSE IF r.none \/ ~truthy(r.value) \/ "text" \notin DOMAIN r.value
         THEN ConnNone(r.sent)
    ELSE ConnValue(r.value["text"], FALSE, r.sent)

\* OpenLawsConnector(api_key): the argument, else the environment
connector_key(arg_key, env_key) == arg_key \/ env_key

lookup_us_law(arg_key, env_key, outcome) ==
    get_by_citation(connector_key(arg_key, env_key), outcome)

ConnInit ==
    /\ pc = "conn_ready"
    /\ cmd = "OpenLawsConnector"
    /\ raised = "none"
    /\ CtxIdle
    /\ ParseIdle
    /\ CliIdle
    /\ env_openlaws_key \in BOOLEAN
    /\ \E arg_key \in BOOLEAN :
          conn_api_key = connector_key(arg_key, env_openlaws_key)
    /\ http_requests = 0
    /\ http_outcome = NoOutcome

\* the caller gets the value r of the method named op
ConnReturn(op, r, outcome) ==
    /\ cmd' = op
    /\ pc' = IF r.raised = "none" THEN "conn_returned" ELSE "conn_raised"
    /\ raised' = r.raised
    /\ result' = [status |-> "returned", value |-> r.value, none |-> r.none]
    /\ console' = IF r.printed THEN console \cup {"OpenLaws search error"} ELSE console
    /\ http_requests' = IF r.sent THEN http_requests + 1 ELSE http_requests
    /\ http_outcome' = IF r.sent THEN outcome ELSE NoOutcome
    /\ UNCHANGED <<ctxVars, response_text, n_parts, optVars, envVars,
                   full_prompt, api_calls, failed_at, exit_code, out_file,
                   env_openlaws_key, conn_api_key>>

Search ==
    /\ http_requests < MaxRequests
    /\ \E outcome \in HttpOutcomes :
          ConnReturn("search", search(conn_api_key, outcome), outcome)

HealthCheck ==
    /\ http_requests < MaxRequests
    /\ \E outcome \in HttpOutcomes :
          ConnReturn("health_check", health_check(conn_api_key, outcome), outcome)

GetByCitation ==
    /\ http_requests < MaxRequests
    /\ \E outcome \in HttpOutcomes :
          ConnReturn("get_by_citation", get_by_citation(conn_api_key, outcome), outcome)

ValidateCitation ==
    /\ http_requests < MaxRequests
    /\ \E outcome \in HttpOutcomes :
          ConnReturn("validate_citation", validate_citation(conn_api_key, outcome), outcome)

GetStatuteText ==
    /\ http_requests < MaxRequests
    /\ \E outcome \in HttpOutcomes :
          ConnReturn("get_statute_text", get_statute_text(conn_api_key, outcome), outcome)

LookupUsLaw ==
    /\ http_requests < MaxRequests
    /\ \E outcome \in HttpOutcomes, arg_key \in BOOLEAN :
          ConnReturn("lookup_us_law",
                     lookup_us_law(arg_key, env_openlaws_key, outcome), outcome)

ConnNext ==
    \/ Search
    \/ GetByCitation
    \/ ValidateCitation
    \/ GetStatuteText
    \/ LookupUsLaw
    \/ HealthCheck

ConnSpec == ConnInit /\ [][ConnNext]_vars

\* C10: health_check returns False whenever the connector cannot carry out
\* a search: no API key is set, or the HTTP request fails.
C10_HealthCheckFalseWhenSearchFails ==
    (cmd = "health_check" /\ pc = "conn_returned"
        /\ (~conn_api_key \/ http_outcome.kind = "timeout" \/ http_outcome.code >= 400))
    => result.value = FALSE

CitationOps ==
    {"get_by_citation", "validate_citation", "get_statute_text", "lookup_us_law"}

ConnDone == pc \in {"conn_returned", "conn_raised"}

Answered404 == http_outcome.kind = "response" /\ http_outcome.code = 404

RequestSucceeded == http_outcome.kind = "response" /\ http_outcome.code < 400

\* C11: get_by_citation (also called through lookup_us_law) returns the
\* document when the request succeeds and None exactly when the service
\* answers 404; a missing API key, a timeout and any other HTTP status
\* leave get_by_citation, validate_citation, get_statute_text and
\* lookup_us_law as an exception; validate_citation returns False only
\* when the service answered 404.
C11_CitationNoneOnlyOn404 ==
    /\ (cmd \in {"get_by_citation", "lookup_us_law"} /\ ConnDone) =>
          /\ RequestSucceeded =>
                (pc = "conn_returned" /\ ~result.none
                    /\ result.value = http_outcome.body)
          /\ (pc = "conn_returned" /\ result.none) <=> Answered404
    /\ (cmd \in CitationOps /\ ConnDone /\ ~RequestSucceeded /\ ~Answered404) =>
          /\ pc = "conn_raised"
          /\ raised = (IF http_outcome.kind = "none" THEN "ValueError"
                       ELSE IF http_outcome.kind = "timeout" THEN "Timeout"
                       ELSE "HTTPError")
    /\ (cmd = "validate_citation" /\ pc = "conn_returned") =>
          (result.value = FALSE <=> Answered404)

C11_Witness ==
    /\ cmd = "validate_citation"
    /\ pc = "conn_raised"
    /\ raised = "HTTPError"
    /\ http_outcome.code = 500

\* position of a stage of `analyze` in the order the claim gives; loading
\* the general risk patterns belongs to the knowledge assembly
StageRank(p) ==
    CASE p = "start" -> 0
      [] p = "check_api_key" -> 1
      [] p = "load_prompt" -> 2
      [] p \in {"load_risk_patterns", "knowledge"} -> 3
      [] p = "encode_pdf" -> 4
      [] p = "call_api" -> 5
      [] p = "output" -> 6
      [] OTHER -> 7

C12_RemoteCallNeedsEarlierStages ==
    cmd = "analyze" =>
      /\ (api_calls >= 1 \/ pc \in {"call_api", "output"}) =>
            /\ api_key_set
            /\ template = "found"
            /\ patterns_file \in {"missing", "valid"}
            /\ pdf = "encoded"
            /\ failed_at \in {"none", "call_api", "response", "write_output"}
      /\ (template = "missing" \/ pdf = "unreadable") =>
            (api_calls = 0 /\ out_file = NoFile /\ result = NoResult)
      /\ out_file # NoFile => (api_calls = 1 /\ result # NoResult /\ Ended)

C12_StagesStepInOrder ==
    cmd = "analyze" =>
      \/ StageRank(pc') \in {StageRank(pc), StageRank(pc) + 1}
      \/ pc' \in {"exited", "crashed"}

\* C12: the stages of `analyze` run in the order API-key check, template
\* load, knowledge assembly, PDF encoding, remote call, output; the remote
\* call is made only after every earlier stage succeeded, and with a
\* missing template or an unreadable PDF there is no remote call and no
\* output file.
C12_StagesInFixedOrder ==
    [] C12_RemoteCallNeedsEarlierStages /\ [][C12_StagesStepInOrder]_vars

C12_Witness ==
    /\ cmd = "analyze"
    /\ template = "found"
    /\ pdf = "unreadable"
    /\ pc = "exited"
    /\ api_calls = 0

\* C13: of several fenced blocks only the first is considered: when it is
\* valid JSON its value is key_terms, and when it is not the result is the
\* raw_response/parse_error fallback, whatever the later blocks hold.
C13_OnlyFirstOfSeveralBlocks ==
    (pc = "returned" /\ NumBlocks(response_text) >= 2)
    => result.key_terms =
          (IF IsJson(Block(response_text, 1))
           THEN json_loads(Block(response_text, 1)).val
           ELSE [raw_response |-> response_text, parse_error |-> TRUE])

C13_Witness ==
    /\ pc = "returned"
    /\ NumBlocks(response_text) = 2
    /\ ~IsJson(Block(response_text, 1))
    /\ IsJsonObject(Block(response_text, 2))
    /\ result.key_terms = [raw_response |-> response_text, parse_error |-> TRUE]

\* C14: the prompt analyze_contract sends always holds the analysis
\* template and the general risk-patterns reference, and holds the
\* jurisdiction-specific section exactly when a jurisdiction other than
\* "auto" was given and build_jurisdiction_context returned a non-empty
\* string for it.
C14_PromptComposition ==
    (cmd = "analyze" /\ api_calls >= 1) =>
      LET ctx == build_jurisdiction_context(fs_knowledge, jurisdiction,
                                            contract_type)
      IN /\ full_prompt[1] = "risk_analysis.md"
         /\ Occurs("\n\n## General Risk Patterns Reference\n\n", full_prompt)
         /\ Occurs(IF patterns_file = "valid" THEN "{patterns: [general patterns]}"
                   ELSE "{patterns: []}", full_prompt)
         /\ Occurs(SectionHeader, full_prompt)
               <=> (jurisdiction # "auto" /\ ctx.raised = "none" /\ ctx.value # <<>>)
         /\ Occurs(SectionHeader, full_prompt)
               => \A i \in 1..Len(ctx.value) : Occurs(ctx.value[i], full_prompt)

C14_Witness ==
    /\ cmd = "analyze"
    /\ api_calls = 1
    /\ jurisdiction = "us"
    /\ Occurs(SectionHeader, full_prompt)
    /\ Occurs("p1", full_prompt)

----------------------------------------------------------------------------
(* Layout of the context string *)

LawsHeader == "## Applicable Laws"
PatternsHeader == "\n## Jurisdiction-Specific Risk Patterns"
FlagsHeader == "\n## Red Flags for This Jurisdiction"

\* the section a lexeme of the context belongs to, 0 for a lexeme that
\* may stand in any section
SectionOf(tok) ==
    CASE tok \in {LawsHeader, "** ("} -> 1
      [] tok \in {PatternsHeader, "** [", "  - Recommendation: "} -> 2
      [] tok \in {FlagsHeader, "- !! "} -> 3
      [] OTHER -> 0

PositionsOf(tok, text) == {i \in 1..Len(text) : text[i] = tok}

\* the k-th smallest member of a set of positions
NthOf(S, k) == CHOOSE i \in S : Cardinality({j \in S : j < i}) = k - 1

HasLaws(k) == "jurisdiction" \in DOMAIN k /\ "primary_laws" \in DOMAIN k.jurisdiction
HasPatterns(k) == "risk_patterns" \in DOMAIN k
HasFlags(k) ==
    "compliance_checklist" \in DOMAIN k
    /\ "avoid_these_clauses" \in DOMAIN k.compliance_checklist

UpperCase == [low |-> "LOW", medium |-> "MEDIUM", high |-> "HIGH"]

\* positions of the lexemes that belong to section n
SectionPositions(n, ctx) == {i \in 1..Len(ctx) : SectionOf(ctx[i]) = n}

SectionsInOrder(ctx) ==
    LET S1 == SectionPositions(1, ctx)
        S2 == SectionPositions(2, ctx)
        S3 == SectionPositions(3, ctx)
    IN /\ \A i \in S1 : \A j \in S2 \cup S3 : i < j
       /\ \A i \in S2 : \A j \in S3 : i < j
       /\ \A S \in {S1, S2, S3} :
             S # {} =>
                LET first == CHOOSE i \in S : \A j \in S : i <= j
                IN /\ ctx[first] \in {LawsHeader, PatternsHeader, FlagsHeader}
                   /\ \A j \in S \ {first} :
                         ctx[j] \notin {LawsHeader, PatternsHeader, FlagsHeader}

AbsentSectionsOmitted(k, ctx) ==
    /\ Occurs(LawsHeader, ctx) <=> HasLaws(k)
    /\ Occurs(PatternsHeader, ctx) <=> HasPatterns(k)
    /\ Occurs(FlagsHeader, ctx) <=> HasFlags(k)
    /\ \A i \in 1..Len(ctx) :
          /\ SectionOf(ctx[i]) = 1 => HasLaws(k)
          /\ SectionOf(ctx[i]) = 2 => HasPatterns(k)
          /\ SectionOf(ctx[i]) = 3 => HasFlags(k)

PatternLinesWellFormed(k, ctx) ==
    LET ps == IF HasPatterns(k) THEN k.risk_patterns ELSE <<>>
        marks == PositionsOf("** [", ctx)
        recs == PositionsOf("  - Recommendation: ", ctx)
    IN /\ Cardinality(marks) = Len(ps)
       /\ \A n \in 1..Len(ps) :
             LET q == NthOf(marks, n) IN
             /\ ctx[q - 1] = ps[n].name
             /\ ctx[q + 1] = UpperCase[ps[n].severity]
             /\ ("recommendation" \in DOMAIN ps[n])
                   <=> (q + 5 \in recs /\ ctx[q + 4] = "\n")
             /\ q + 5 \in recs => ctx[q + 6] = ps[n].recommendation
       /\ \A r \in recs : r - 5 \in marks

\* C15: the context lists the applicable laws, then the risk patterns, then
\* the red flags; every risk-pattern line carries the severity in upper
\* case; a recommendation line is written only for a pattern that has a
\* recommendation, directly after that pattern's line; a section whose key
\* is absent from the record is left out entirely.
C15_ContextLayout ==
    (pc = "ctx_done" /\ TheFile.exists /\ TheFile.valid)
    => /\ raised = "none"
       /\ SectionsInOrder(jurisdiction_context)
       /\ AbsentSectionsOmitted(TheFile.data, jurisdiction_context)
       /\ PatternLinesWellFormed(TheFile.data, jurisdiction_context)

C15_Witness ==
    /\ pc = "ctx_done"
    /\ TheFile.exists /\ TheFile.valid
    /\ HasLaws(TheFile.data) /\ HasFlags(TheFile.data) /\ HasPatterns(TheFile.data)
    /\ Len(TheFile.data.jurisdiction.primary_laws) = 1
    /\ Len(TheFile.data.compliance_checklist.avoid_these_clauses) = 1
    /\ Len(TheFile.data.risk_patterns) = 2
    /\ "recommendation" \notin DOMAIN TheFile.data.risk_patterns[1]
    /\ "recommendation" \in DOMAIN TheFile.data.risk_patterns[2]
    /\ Cardinality(PositionsOf("  - Recommendation: ", jurisdiction_context)) = 1

\* number of lines of the joined text: the two later headings begin with
\* a newline of their own
NumLines(ctx) ==
    IF ctx = <<>> THEN 0
    ELSE 1 + Cardinality(PositionsOf("\n", ctx))
           + Cardinality(PositionsOf(PatternsHeader, ctx))
           + Cardinality(PositionsOf(FlagsHeader, ctx))

\* the record with l laws, n risk patterns (each with a recommendation)
\* and m checklist items
FullRecord(l, n, m) ==
    ("jurisdiction" :> ("primary_laws" :>
        [i \in 1..l |-> [name |-> "law1", citation |-> "cit1", description |-> "ldesc"]]))
    @@ ("risk_patterns" :>
        [i \in 1..n |-> [name |-> "p1", severity |-> "high", description |-> "pdesc"]
                           @@ ("recommendation" :> "rec")])
    @@ ("compliance_checklist" :> ("avoid_these_clauses" :> [i \in 1..m |-> "item1"]))

\* the number of lines that suffices for every record with fewer than
\* MaxPatterns risk patterns
LineBound == NumLines(Join(context_parts(FullRecord(MaxLaws, MaxPatterns - 1, MaxItems))))

\* C16: the number of lines of the context returned by
\* build_jurisdiction_context never exceeds a fixed bound, whatever the
\* number of laws, risk patterns and checklist items of the record: the
\* bound that holds for the records with fewer risk patterns holds for
\* every record.
C16_ContextLengthBounded ==
    pc = "ctx_done" => NumLines(jurisdiction_context) <= LineBound

\* the lines the record asks for: per present section its heading (the
\* two later headings with the empty line before them) and a line per
\* entry, and a further line per recommendation
LinesOf(k) ==
    (IF HasLaws(k) THEN 1 + Len(k.jurisdiction.primary_laws) ELSE 0)
    + (IF HasPatterns(k)
       THEN 2 + Len(k.risk_patterns)
              + Cardinality({i \in 1..Len(k.risk_patterns) :
                               "recommendation" \in DOMAIN k.risk_patterns[i]})
       ELSE 0)
    + (IF HasFlags(k)
       THEN 2 + Len(k.compliance_checklist.avoid_these_clauses) ELSE 0)

\* C16 amended: the length of the context is fixed by the record and by
\* nothing else: it has exactly one line per heading of a present section
\* (and the empty line before each of the two later headings), one per
\* law, one per risk pattern, one more per recommendation and one per
\* checklist item, so it grows by a line with every further entry.
C16_ContextLengthFollowsRecord ==
    (pc = "ctx_done" /\ TheFile.exists /\ TheFile.valid)
    => NumLines(jurisdiction_context) = LinesOf(TheFile.data)

C16_Witness ==
    /\ pc = "ctx_done"
    /\ TheFile.exists /\ TheFile.valid
    /\ TheFile.data = FullRecord(MaxLaws, MaxPatterns, MaxItems)
    /\ NumLines(jurisdiction_context) > LineBound

\* C17: without ANTHROPIC_API_KEY none of analyze, check, compare and
\* extract reads the PDF, calls the API or writes output, and each of them
\* ends with a non-zero code: code 1, from the key check, whenever click
\* accepted its arguments and ran the command; export, jurisdictions and
\* info never stop at the key check.
C17_NoKeyExitsBeforeAnyWork ==
    /\ (cmd \in ApiCommands /\ ~api_key_set) =>
          /\ pc \in {"start", "check_api_key", "exited"}
          /\ pdf \in {"unread", "exists", "missing"}
          /\ template = "unread" /\ patterns_file = "unread"
          /\ api_calls = 0
          /\ result = NoResult
          /\ ~out_file.written
          /\ pc = "exited" => exit_code # 0
          /\ (pc = "exited" /\ pdf = "exists") =>
                /\ exit_code = 1
                /\ failed_at = "check_api_key"
                /\ console = {"Error: ANTHROPIC_API_KEY not set."}
    /\ cmd \in {"export", "jurisdictions", "info"} =>
          /\ failed_at # "check_api_key"
          /\ "Error: ANTHROPIC_API_KEY not set." \notin console
          /\ (Ended /\ failed_at = "none") => exit_code = 0

C17_Witness ==
    /\ cmd = "extract"
    /\ ~api_key_set
    /\ pc = "exited"
    /\ exit_code = 1
    /\ failed_at = "check_api_key"

\* the key under which each command's library function returns its payload
PayloadKey ==
    [analyze |-> "analysis", check |-> "result", compare |-> "comparison",
     extract |-> "key_terms"]

\* stages that run inside the library function, under the command's try
LibraryStages ==
    {"load_prompt", "load_risk_patterns", "knowledge", "encode_pdf",
     "call_api", "response"}

ReturnedResultIsSuccess ==
    (cmd \in ApiCommands /\ result # NoResult) =>
      /\ result.status = "success"
      /\ PayloadKey[cmd] \in DOMAIN result
      /\ DOMAIN result.usage = {"input_tokens", "output_tokens"}
      /\ api_calls = 1
      /\ "failed" \notin console

FromExceptionHandler ==
    /\ pc = "exited"
    /\ exit_code = 1
    /\ "Error: exception" \in console
    /\ raised # "none"

\* C18 as stated: the four library functions raise or return a result
\* with status "success", a payload and both token counters, the "failed"
\* branches are never taken, and every failure exit of the four commands
\* comes from the exception handler.
C18_EveryFailureExitFromHandler ==
    /\ ReturnedResultIsSuccess
    /\ (cmd \in ApiCommands /\ Ended /\ exit_code # 0 /\ failed_at # "click")
          => FromExceptionHandler

\* C18 amended: the four library functions raise or return a result with
\* status "success", a payload and both token counters, the "failed"
\* branches are never taken, and every failure of the library function
\* exits through the exception handler; the other failure exits are
\* click's rejection of the arguments, the key check, and an error raised
\* while the --output file is written, after the result was returned.
C18_LibraryFailuresExitFromHandler ==
    /\ ReturnedResultIsSuccess
    /\ (cmd \in ApiCommands /\ Ended /\ exit_code # 0) =>
          \/ failed_at = "click" /\ exit_code = 2 /\ pdf = "missing"
          \/ failed_at = "check_api_key" /\ ~api_key_set /\ exit_code = 1
          \/ failed_at \in LibraryStages /\ FromExceptionHandler /\ result = NoResult
          \/ /\ failed_at = "write_output" /\ pc = "crashed" /\ output
             /\ result # NoResult /\ out_file \in {NoFile, TruncatedFile}
    /\ (cmd \in ApiCommands /\ failed_at \in LibraryStages) =>
          (FromExceptionHandler /\ result = NoResult)

C18_Witness ==
    /\ cmd = "extract"
    /\ pc = "exited"
    /\ exit_code = 0
    /\ result.status = "success"
    /\ result.key_terms = [raw_response |-> <<"x">>, parse_error |-> TRUE]

WrittenOnlyAfterCall ==
    /\ out_file # NoFile =>
          (output /\ api_calls = 1 /\ result # NoResult /\ result.status = "success")
    /\ (Ended /\ exit_code = 0) =>
          out_file = (IF output
                      THEN [written |-> TRUE,
                            form |-> payload_of(cmd, result).form,
                            body |-> payload_of(cmd, result).body]
                      ELSE NoFile)

\* C19 as stated: in analyze, check, compare and extract the --output
\* file is written only after the remote call returned successfully; on
\* every run that ends with a non-zero exit the file is as it was, and on
\* success without --output no file is written.
C19_FileUnchangedOnEveryFailure ==
    cmd \in ApiCommands =>
      /\ WrittenOnlyAfterCall
      /\ (Ended /\ exit_code # 0) => out_file = NoFile

----------------------------------------------------------------------------
(* Specification of the report generator: generate_report called by the
   export command, whose --format click restricts to markdown and docx,
   and called as a library function with any format. *)

ReportFormats == {"markdown", "docx", "pdf"}

ReportInit ==
    \/ CliInit /\ cmd = "export"
    \/ /\ pc = "report_call"
       /\ cmd = "generate_report"
       /\ raised = "none"
       /\ CtxIdle
       /\ response_text \in Replies
       /\ n_parts = 0
       /\ result = NoResult
       /\ api_key_set \in BOOLEAN
       /\ format \in ReportFormats
       /\ output = FALSE
       /\ docx_available \in BOOLEAN
       /\ template = "unread"
       /\ patterns_file = "unread"
       /\ pdf = "unread"
       /\ full_prompt = <<>>
       /\ api_calls = 0
       /\ failed_at = "none"
       /\ exit_code = -1
       /\ console = {}
       /\ out_file = NoFile
       /\ ConnIdle

\* generate_report(analysis, output_path, format) called directly
GenerateReport ==
    /\ pc = "report_call"
    /\ LET r == generate_report(response_text, format, docx_available) IN
       \E w \in WriteOutcomes :
          IF r.file.written /\ w # "written"
          THEN /\ pc' = "report_raised"
               /\ raised' = "OSError"
               /\ out_file' = IF w = "write_fails" THEN TruncatedFile ELSE out_file
               /\ UNCHANGED result
          ELSE /\ pc' = "report_returned"
               /\ result' = r.result
               /\ IF r.file.written THEN out_file' = r.file ELSE UNCHANGED out_file
               /\ UNCHANGED raised
    /\ UNCHANGED <<cmd, ctxVars, response_text, n_parts, optVars, envVars,
                   full_prompt, api_calls, failed_at, exit_code, console, connVars>>

ReportNext ==
    \/ ClickValidate
    \/ read_input
    \/ export_report
    \/ GenerateReport

ReportSpec == ReportInit /\ [][ReportNext]_vars

Writes(fmt, docx) == fmt = "markdown" \/ (fmt = "docx" /\ docx)

\* C20: generate_report returns status "success", with output_path and
\* format, exactly when it wrote the file, which it does for markdown and
\* for docx with python-docx; for any other format and for docx without
\* python-docx it returns status "error" with a message and writes no
\* file, and export then exits with code 1.
C20_ReportStatusTellsFileWritten ==
    /\ result # NoResult =>
          /\ result.status \in {"success", "error"}
          /\ result.status = "success" <=> Writes(format, docx_available)
          /\ result.status = "success" <=>
                (out_file.written /\ out_file.form = format
                    /\ \A i \in 1..Len(response_text) :
                          Occurs(response_text[i], out_file.body))
          /\ result.status = "success" =>
                /\ DOMAIN result = {"status", "output_path", "format"}
                /\ result.format = format
          /\ result.status = "error" =>
                /\ DOMAIN result = {"status", "message"}
                /\ out_file = NoFile
    /\ (cmd = "export" /\ result # NoResult) =>
          /\ pc = "exited"
          /\ exit_code = (IF result.status = "error" THEN 1 ELSE 0)

C20_Witness ==
    /\ cmd = "export"
    /\ format = "docx"
    /\ ~docx_available
    /\ result.status = "error"
    /\ out_file = NoFile
    /\ pc = "exited"
    /\ exit_code = 1

SearchReturnsOrEmpty ==
    (cmd = "search" /\ ConnDone) =>
      /\ pc = "conn_returned"
      /\ raised = "none"
      /\ ~result.none
      /\ RequestSucceeded =>
            result.value = (IF "results" \in DOMAIN http_outcome.body
                            THEN http_outcome.body["results"] ELSE <<>>)
      /\ ~RequestSucceeded =>
            (result.value = <<>> /\ "OpenLaws search error" \in console)
      /\ ~conn_api_key => http_outcome = NoOutcome

SearchWithoutKeySendsNothing ==
    (cmd' = "search" /\ ~conn_api_key) => http_requests' = http_requests

\* C21: OpenLawsConnector.search never raises: with a missing API key, an
\* HTTP error or a timeout it returns the empty list, and with a missing
\* API key no HTTP request is sent.
C21_SearchNeverRaises ==
    [] SearchReturnsOrEmpty /\ [][SearchWithoutKeySendsNothing]_vars

C21_Witness ==
    /\ cmd = "search"
    /\ pc = "conn_returned"
    /\ ~conn_api_key
    /\ result.value = <<>>
    /\ http_outcome = NoOutcome
    /\ http_requests = 0
    /\ "OpenLaws search error" \in console

\* the text handed to the JSON parser: the first fenced block if there is
\* one, else the whole response
ChosenText(t) == IF NumBlocks(t) >= 1 THEN Block(t, 1) ELSE t

\* `"parse_error" in key_terms`, for the fallback and for a parsed object
HasParseError(kt) ==
    IF "parse_error" \in DOMAIN kt THEN TRUE
    ELSE /\ kt.type = "dict"
         /\ \E i \in 1..Len(kt.items) : kt.items[i][1] = <<"parse_error">>

\* C22 as stated: a response with no fenced block whose whole text is
\* valid JSON yields that JSON value as key_terms, without a parse_error
\* flag; parse_error is set if and only if the chosen text is not valid
\* JSON.
C22_ParseErrorIffChosenTextInvalid ==
    pc = "returned" =>
      /\ (NumBlocks(response_text) = 0 /\ IsJson(response_text)) =>
            /\ result.key_terms = json_loads(response_text).val
            /\ ~HasParseError(result.key_terms)
      /\ HasParseError(result.key_terms) <=> ~IsJson(ChosenText(response_text))

\* C22 amended: a response with no fenced block whose whole text is valid
\* JSON yields exactly that JSON value as key_terms; the parser returns
\* the raw_response/parse_error fallback if and only if the chosen text is
\* not valid JSON, and otherwise the value of the chosen text unchanged,
\* which has a parse_error key exactly when the JSON object itself has one.
C22_FallbackIffChosenTextInvalid ==
    pc = "returned" =>
      LET chosen == ChosenText(response_text)
          fb == [raw_response |-> response_text, parse_error |-> TRUE]
      IN /\ (NumBlocks(response_text) = 0 /\ IsJson(response_text)) =>
               result.key_terms = json_loads(response_text).val
         /\ result.key_terms = fb <=> ~IsJson(chosen)
         /\ IsJson(chosen) =>
               /\ result.key_terms = json_loads(chosen).val
               /\ HasParseError(result.key_terms)
                     <=> HasParseError(json_loads(chosen).val)

C22_Witness ==
    /\ pc = "returned"
    /\ NumBlocks(response_text) = 0
    /\ Len(response_text) > 10
    /\ IsJsonObject(response_text)
    /\ result.key_terms = ValDict(<< <<(<<"k">>), ValStr(<<"x">>)>> >>)

====
